---- MODULE Spec2Model ----
(***************************************************************************)
(* Model of the search box and question index of AppComponent              *)
(* (frontend/src/app/app.component.ts).                                    *)
(*                                                                         *)
(* A JavaScript string is a sequence of one-character strings, so that     *)
(* trim, toLowerCase, split, includes, indexOf and startsWith are computed *)
(* character by character as the code computes them.  A score of           *)
(* scoreSuggestion is kept times 1000, which turns `tier + pos/1000` into  *)
(* the integer `1000*tier + pos` and preserves the order of the scores.    *)
(*                                                                         *)
(* The source file holds the component twice; the second copy differs from *)
(* the first in the holiday annotations, in showAutocomplete (length >= 2) *)
(* and in the first guard of updateSuggestions.  The model follows the     *)
(* first copy, lines 1-744.                                                *)
(***************************************************************************)
EXTENDS Integers, Sequences, FiniteSets, TLC

(***************************************************************************)
(* Bounds                                                                  *)
(***************************************************************************)
\* number of blur timers the environment creates in one behaviour
MaxTimer == 2

(***************************************************************************)
(* Program constants                                                       *)
(***************************************************************************)
MinQueryLength == 2
MaxSuggestions == 8
NumReleases == 2

\* the value Number.parseInt gives for a slider value that is not a number
NaN == -1

(***************************************************************************)
(* Strings                                                                 *)
(***************************************************************************)
WhiteSpace == {" ", "\t", "\n", "\r"}

UpperCase == <<"A","B","C","D","E","F","G","H","I","J","K","L","M",
               "N","O","P","Q","R","S","T","U","V","W","X","Y","Z">>
LowerCase == <<"a","b","c","d","e","f","g","h","i","j","k","l","m",
               "n","o","p","q","r","s","t","u","v","w","x","y","z">>

\* the lower-case letter of each upper-case letter
LowerOf == [c \in {UpperCase[i] : i \in 1..26} |->
              LowerCase[CHOOSE i \in 1..26 : UpperCase[i] = c]]

LowerChar(c) == IF c \in DOMAIN LowerOf THEN LowerOf[c] ELSE c

ToLowerCase(s) == [i \in 1..Len(s) |-> LowerChar(s[i])]

Trim(s) ==
  LET keep == {i \in 1..Len(s) : s[i] \notin WhiteSpace}
  IN IF keep = {} THEN <<>>
     ELSE SubSeq(s, CHOOSE i \in keep : \A j \in keep : i <= j,
                    CHOOSE i \in keep : \A j \in keep : j <= i)

StartsWith(s, p) == Len(p) <= Len(s) /\ SubSeq(s, 1, Len(p)) = p

\* the 0-based positions at which t occurs in s
Occurrences(s, t) ==
  {i \in 0..(Len(s) - Len(t)) : SubSeq(s, i + 1, i + Len(t)) = t}

Includes(s, t) == Occurrences(s, t) # {}

IndexOf(s, t) ==
  IF Occurrences(s, t) = {} THEN -1
  ELSE CHOOSE i \in Occurrences(s, t) : \A j \in Occurrences(s, t) : i <= j

\* length of the longest prefix of s made of characters of (or not of) cs
RECURSIVE RunLength(_, _, _)
RunLength(s, cs, inside) ==
  IF s = <<>> \/ ((Head(s) \in cs) # inside) THEN 0
  ELSE 1 + RunLength(Tail(s), cs, inside)

\* s.split(/\s+/).filter(Boolean)
RECURSIVE SplitWhiteSpace(_)
SplitWhiteSpace(s) ==
  IF s = <<>> THEN <<>>
  ELSE IF Head(s) \in WhiteSpace
    THEN SplitWhiteSpace(SubSeq(s, RunLength(s, WhiteSpace, TRUE) + 1, Len(s)))
    ELSE LET n == RunLength(s, WhiteSpace, FALSE)
         IN <<SubSeq(s, 1, n)>> \o SplitWhiteSpace(SubSeq(s, n + 1, Len(s)))

\* s.replace(/\s+/g, ' ')
RECURSIVE CollapseWhiteSpace(_)
CollapseWhiteSpace(s) ==
  IF s = <<>> THEN <<>>
  ELSE IF Head(s) \in WhiteSpace
    THEN <<" ">> \o
         CollapseWhiteSpace(SubSeq(s, RunLength(s, WhiteSpace, TRUE) + 1, Len(s)))
    ELSE <<Head(s)>> \o CollapseWhiteSpace(Tail(s))

\* s.split(/\r?\n/)
RECURSIVE SplitLines(_)
SplitLines(s) ==
  LET n == RunLength(s, {"\n"}, FALSE)
  IN IF n = Len(s) THEN <<s>>
     ELSE LET cut == IF n > 0 /\ s[n] = "\r" THEN n - 1 ELSE n
          IN <<SubSeq(s, 1, cut)>> \o SplitLines(SubSeq(s, n + 2, Len(s)))

(***************************************************************************)
(* Prompt preview: the title of a question                                 *)
(***************************************************************************)
GlobalAssumptions ==
  <<"g","l","o","b","a","l"," ","a","s","s","u","m","p","t","i","o","n","s">>
LensDefinitions ==
  <<"l","e","n","s"," ","d","e","f","i","n","i","t","i","o","n","s">>
UntitledQuestion ==
  <<"U","n","t","i","t","l","e","d"," ","q","u","e","s","t","i","o","n">>

\* the `while (idx < lines.length && blank(lines[idx]) ...) idx += 1` loops,
\* with idx counted from 1
RECURSIVE SkipLines(_, _, _)
SkipLines(lines, idx, blank) ==
  IF idx <= Len(lines) /\ ((Trim(lines[idx]) = <<>>) = blank)
    THEN SkipLines(lines, idx + 1, blank)
    ELSE idx

StripLeadingBenchmarkBlurb(lines) ==
  LET idx0  == SkipLines(lines, 1, TRUE)
      first == IF idx0 <= Len(lines) THEN ToLowerCase(Trim(lines[idx0])) ELSE <<>>
      idx1  == IF StartsWith(first, GlobalAssumptions) \/ StartsWith(first, LensDefinitions)
                 THEN SkipLines(lines, SkipLines(lines, idx0, FALSE), TRUE)
                 ELSE idx0
  IN SubSeq(lines, idx1, Len(lines))

\* the trimmed non-blank lines buildPromptPreview classifies
PromptLines(prompt) ==
  LET stripped == StripLeadingBenchmarkBlurb(SplitLines(prompt))
      trimmed  == [i \in 1..Len(stripped) |-> Trim(stripped[i])]
  IN SelectSeq(trimmed, LAMBDA line : Len(line) > 0)

PromptTitle(prompt) ==
  LET lines == PromptLines(prompt)
  IN IF Len(lines) > 0 THEN lines[1] ELSE UntitledQuestion

(***************************************************************************)
(* Search index                                                            *)
(***************************************************************************)
\* question.turns?.[0]?.content ?? ''
FullPrompt(question) ==
  IF Len(question.turns) > 0 THEN question.turns[1].content ELSE <<>>

Haystack(question) ==
  Trim(CollapseWhiteSpace(ToLowerCase(
    question.question_id \o <<" ">> \o question.category \o <<" ">> \o
    question.task \o <<" ">> \o question.answer_type \o <<" ">> \o
    FullPrompt(question))))

IndexQuestion(question) ==
  [id         |-> question.question_id,
   category   |-> question.category,
   task       |-> question.task,
   answerType |-> question.answer_type,
   title      |-> PromptTitle(FullPrompt(question)),
   fullPrompt |-> FullPrompt(question),
   haystack   |-> Haystack(question)]

BuildIndex(questions) == [i \in 1..Len(questions) |-> IndexQuestion(questions[i])]

(***************************************************************************)
(* Ranking                                                                 *)
(***************************************************************************)
ScoreSuggestion_HaystackFirst(query, suggestion) ==
  LET id       == ToLowerCase(suggestion.id)
      category == ToLowerCase(suggestion.category)
      task     == ToLowerCase(suggestion.task)
      title    == ToLowerCase(suggestion.title)
  IN IF StartsWith(id, query) THEN 0
     ELSE IF Includes(id, query) THEN 1000 + IndexOf(id, query)
     ELSE IF StartsWith(task, query) THEN 2000
     ELSE IF Includes(task, query) THEN 3000 + IndexOf(task, query)
     ELSE IF Includes(category, query) THEN 4000 + IndexOf(category, query)
     ELSE IF Includes(title, query) THEN 5000 + IndexOf(title, query)
     ELSE 0

\* scoreSuggestion, times 1000
ScoreSuggestion(query, suggestion) ==
  LET id       == ToLowerCase(suggestion.id)
      category == ToLowerCase(suggestion.category)
      task     == ToLowerCase(suggestion.task)
      title    == ToLowerCase(suggestion.title)
  IN IF StartsWith(id, query) THEN 0
     ELSE IF Includes(id, query) THEN 1000 + IndexOf(id, query)
     ELSE IF StartsWith(task, query) THEN 2000
     ELSE IF Includes(task, query) THEN 3000 + IndexOf(task, query)
     ELSE IF Includes(category, query) THEN 4000 + IndexOf(category, query)
     ELSE IF Includes(title, query) THEN 5000 + IndexOf(title, query)
     ELSE 10000

MatchesEvery_Some(terms, suggestion) ==
  \E i \in 1..Len(terms) : Includes(suggestion.haystack, terms[i])

\* terms.every((term) => suggestion.haystack.includes(term))
MatchesEvery(terms, suggestion) ==
  \A i \in 1..Len(terms) : Includes(suggestion.haystack, terms[i])

\* matches.sort((a, b) => a.score - b.score): a stable sort, built by
\* inserting each match after the matches that do not score higher
RECURSIVE SortByScore(_)
SortByScore(matches) ==
  IF matches = <<>> THEN <<>>
  ELSE LET sorted == SortByScore(SubSeq(matches, 1, Len(matches) - 1))
           m      == matches[Len(matches)]
           k      == Cardinality({i \in 1..Len(sorted) : sorted[i].score <= m.score})
       IN SubSeq(sorted, 1, k) \o <<m>> \o SubSeq(sorted, k + 1, Len(sorted))

\* matches.slice(0, 8)
SliceTop(matches) ==
  SubSeq(matches, 1, IF Len(matches) < MaxSuggestions THEN Len(matches) ELSE MaxSuggestions)

BelowThreshold_One(query) == Len(query) < 1

\* if (query.length < 2)
BelowThreshold(query) == Len(query) < MinQueryLength

ClampActive_None(active, length) == active

\* if (activeSuggestionIndex >= suggestions.length) { ... ? 0 : -1 }
ClampActive(active, length) ==
  IF active >= length THEN (IF length # 0 THEN 0 ELSE -1) ELSE active

\* updateSuggestions: the new suggestions and activeSuggestionIndex
UpdateSuggestions(open, searchText, active, index) ==
  IF ~open THEN [suggestions |-> <<>>, active |-> active]
  ELSE
    LET query == ToLowerCase(Trim(searchText))
    IN IF BelowThreshold(query) THEN [suggestions |-> <<>>, active |-> active]
       ELSE
         LET terms   == SplitWhiteSpace(query)
             kept    == SelectSeq(index, LAMBDA s : MatchesEvery(terms, s))
             matches == [i \in 1..Len(kept) |->
                           [suggestion |-> kept[i],
                            score      |-> ScoreSuggestion(query, kept[i])]]
             top     == SliceTop(SortByScore(matches))
             result  == [i \in 1..Len(top) |-> top[i].suggestion]
         IN [suggestions |-> result,
             active      |-> ClampActive(active, Len(result))]

(***************************************************************************)
(* Inputs: the question resources of the two releases and the texts typed  *)
(***************************************************************************)
Question(id, category, task, answerType, turns) ==
  [question_id |-> id, category |-> category, task |-> task,
   answer_type |-> answerType, turns |-> turns]

\* questions.jsonl of releaseDates[0]: ten of its records match the query
\* "ab", one in each tier of the scorer
QuestionsOfFirstRelease == <<
  Question(<<"x","1">>, <<"c","a","b">>, <<"t">>, <<"m","c","q">>,
           <<[role |-> "user", content |-> <<"T","1","\n","x","7">>]>>),
  Question(<<"a","b","2">>, <<"c","d">>, <<"t">>, <<"m","c","q">>,
           <<[role |-> "user", content |-> <<"T","2">>]>>),
  Question(<<"3","a","b">>, <<"c">>, <<"t">>, <<"m","c","q">>,
           <<[role |-> "user", content |-> <<"T","3">>]>>),
  Question(<<"x","4">>, <<"c">>, <<"a","b"," ","c","d">>, <<"m","c","q">>,
           <<[role |-> "user", content |-> <<"T","4">>]>>),
  Question(<<"x","5">>, <<"c">>, <<"t","a","b">>, <<"m","c","q">>,
           <<[role |-> "user", content |-> <<"T","5">>]>>),
  Question(<<"x","6">>, <<"c">>, <<"t">>, <<"m","c","q">>,
           <<[role |-> "user", content |-> <<"L","a","b","\r","\n","\n"," ","c","d">>]>>),
  Question(<<"x","7">>, <<"c">>, <<"t">>, <<"m","c","q">>,
           <<[role |-> "user", content |-> <<"T","7","\n","a","b">>]>>),
  Question(<<"x","8">>, <<"c">>, <<"t">>, <<"m","c","q">>,
           <<[role |-> "user", content |-> <<"G","l","o","b","a","l"," ","A","s","s","u","m","p","t","i","o","n","s","\n","a","b","\n","\n","T","8">>]>>),
  Question(<<"A","B","9">>, <<"c">>, <<"t">>, <<"m","c","q">>,
           <<[role |-> "user", content |-> <<"T","9">>]>>),
  Question(<<"x","0">>, <<"c","d">>, <<"t">>, <<"m","c","q">>,
           <<[role |-> "user", content |-> <<"T","0">>]>>),
  Question(<<"x","a","b">>, <<"c">>, <<"t">>, <<"m","c","q">>,
           <<[role |-> "user", content |-> <<"T","a">>]>>) >>

\* questions.jsonl of releaseDates[1]: two records match "ab", the last
\* record has no turns
QuestionsOfSecondRelease == <<
  Question(<<"y","1">>, <<"c","a","b">>, <<"t">>, <<"m","c","q">>,
           <<[role |-> "user", content |-> <<"T","1">>]>>),
  Question(<<"a","b","2">>, <<"c","d">>, <<"t">>, <<"m","c","q">>,
           <<[role |-> "user", content |-> <<"T","2">>]>>),
  Question(<<"y","3">>, <<"c">>, <<"t">>, <<"m","c","q">>,
           <<>>) >>

ReleaseQuestions(releaseIndex) ==
  IF releaseIndex = 0 THEN QuestionsOfFirstRelease ELSE QuestionsOfSecondRelease

\* questions.map((question) => this.indexQuestion(question)), per release
IndexOfFirstRelease == BuildIndex(QuestionsOfFirstRelease)
IndexOfSecondRelease == BuildIndex(QuestionsOfSecondRelease)
IndexOfRelease(releaseIndex) ==
  IF releaseIndex = 0 THEN IndexOfFirstRelease ELSE IndexOfSecondRelease

\* values of the search input
TypedTexts ==
  {<<>>,
   <<" ","a">>,
   <<"a","b">>,
   <<"A","B"," ">>,
   <<"a","b"," ","c","d">>,
   <<"c","d","\t","a","b">>,
   <<"x","7">>}

Keys == {"ArrowDown", "ArrowUp", "Enter", "Escape", "Tab"}

(***************************************************************************)
(* State                                                                   *)
(***************************************************************************)
VARIABLES
  searchQuery,            \* the text of the search input
  autocompleteOpen,
  activeSuggestionIndex,  \* -1 or a 0-based index into suggestions
  suggestions,
  searchIndex,
  blurTimer,              \* the handle kept by the component, 0 for null
  timerState,             \* the timers of the runtime, by handle
  selectedReleaseIndex,
  inflight,               \* release index of the pending question request
  questionsAlive,         \* the questions$ subscription has not errored
  lastEvent               \* the event handled last

\* the arguments and the result of one call of buildViewModel
VARIABLES
  vmReport,
  vmQuestions,
  vmReleaseId,
  viewModels              \* the view models built, at most one

\* the lazily built calendar formatter, and the last calendar call
VARIABLES
  hebrewPartsFormatterInitialized,
  hebrewPartsFormatter,   \* 0 for null, else the number of the instance
  constructions,          \* calls of new Intl.DateTimeFormat so far
  calendarCalls,          \* calls of findNextHebrewDate and getHebrewParts
  lastCall                \* the last of these calls and what it returned

\* the shared streams and the subscribers of vm$
VARIABLES
  reportState,        \* report$: "idle", "pending", "loaded" or "failed"
  reconnected,        \* questions$ was subscribed anew after it had failed
  questionsReplay,    \* the value questions$ replays: <<>> or <<list>>
  subscribers,        \* the subscriptions to vm$, in order of subscription
  dropped,            \* releases with a request that switchMap unsubscribed
                      \* from and that the server has yet to answer
  fetchesStarted      \* the requests that the last step issued

\* the prompt handed to buildPromptPreview and what it returned
VARIABLES
  previewPrompt,
  previews                \* the previews built, at most one

searchVars == <<searchQuery, autocompleteOpen, activeSuggestionIndex, suggestions,
                searchIndex, blurTimer, timerState, selectedReleaseIndex, inflight,
                questionsAlive, lastEvent>>
vmVars == <<vmReport, vmQuestions, vmReleaseId, viewModels>>

calendarVars == <<hebrewPartsFormatterInitialized, hebrewPartsFormatter,
                  constructions, calendarCalls, lastCall>>

streamVars == <<reportState, reconnected, questionsReplay, subscribers, dropped,
                fetchesStarted>>

promptVars == <<previewPrompt, previews>>

vars == <<searchVars, vmVars, calendarVars, streamVars, promptVars>>

\* what the handlers of the search box leave alone
aside == <<vmVars, calendarVars, streamVars, promptVars>>

widget == <<searchQuery, autocompleteOpen, activeSuggestionIndex, suggestions>>
timers == <<blurTimer, timerState>>
source == <<searchIndex, selectedReleaseIndex, inflight, questionsAlive>>

NoTimer == 0
NoRequest == -1
Handles == 1..MaxTimer

Event(kind, key, id) == [kind |-> kind, key |-> key, id |-> id]

Pending == {h \in Handles : timerState[h] = "pending"}

\* clearTimeout(handle): a no-op on a timer that fired or was cleared
ClearTimeout(handle, state) ==
  [h \in Handles |-> IF h = handle /\ state[h] = "pending" THEN "cleared" ELSE state[h]]

\* get showAutocomplete
ShowAutocomplete == autocompleteOpen /\ Len(Trim(searchQuery)) > 0

NoReport ==
  [overall |-> 0, categories |-> <<>>, n_questions |-> 0, n_missing |-> 0]

\* no call of buildViewModel is under way
ViewModelIdle ==
  /\ vmReport = NoReport
  /\ vmQuestions = <<>>
  /\ vmReleaseId = ""
  /\ viewModels = <<>>

NoCall == [op |-> "none", day |-> 0, hour |-> 0, match |-> "", result |-> <<>>]

\* the field initialisers of the formatter, no call made
CalendarIdle ==
  /\ hebrewPartsFormatterInitialized = FALSE
  /\ hebrewPartsFormatter = 0
  /\ constructions = 0
  /\ calendarCalls = 0
  /\ lastCall = NoCall

\* no call of buildPromptPreview is under way
PromptIdle ==
  /\ previewPrompt = <<>>
  /\ previews = <<>>

\* bound on the subscriptions to vm$
MaxSubscribers == 2

NoEmission == <<>>

NoSubscriber == [status |-> "none", last |-> NoEmission, error |-> FALSE]

NoFetch == [questions |-> 0, report |-> 0]

\* nothing has subscribed to vm$: report$ is cold, questions$ has its first
\* subscription, the one of the constructor
StreamsIdle ==
  /\ reportState = "idle"
  /\ reconnected = FALSE
  /\ questionsReplay = <<>>
  /\ subscribers = [s \in 1..MaxSubscribers |-> NoSubscriber]
  /\ dropped = {}
  /\ fetchesStarted = NoFetch

\* the state after construction: the constructor's subscription to
\* questions$ has requested the questions of releaseDates[0]
SearchIdle ==
  /\ searchQuery = <<>>
  /\ autocompleteOpen = FALSE
  /\ activeSuggestionIndex = -1
  /\ suggestions = <<>>
  /\ searchIndex = <<>>
  /\ blurTimer = NoTimer
  /\ timerState = [h \in Handles |-> "unused"]
  /\ selectedReleaseIndex = 0
  /\ inflight = 0
  /\ questionsAlive = TRUE
  /\ lastEvent = Event("init", "", <<>>)

Init ==
  /\ SearchIdle
  /\ ViewModelIdle
  /\ CalendarIdle
  /\ StreamsIdle
  /\ PromptIdle

(***************************************************************************)
(* Event handlers                                                          *)
(***************************************************************************)
OnReleaseChange(value) ==
  /\ UNCHANGED aside
  /\ lastEvent' = Event("release", "", <<>>)
  /\ IF value = NaN
       THEN UNCHANGED <<widget, timers, source>>
       ELSE /\ selectedReleaseIndex' = value
            \* releaseIndex$.next(value): switchMap drops the pending request
            \* and issues the request of the new release
            /\ inflight' = IF questionsAlive THEN value ELSE inflight
            /\ activeSuggestionIndex' = -1
            /\ suggestions' = <<>>
            /\ UNCHANGED <<searchQuery, autocompleteOpen, searchIndex,
                           questionsAlive, timers>>

OnSearchInput(value) ==
  LET r == UpdateSuggestions(TRUE, value, -1, searchIndex)
  IN /\ searchQuery' = value
     /\ autocompleteOpen' = TRUE
     /\ suggestions' = r.suggestions
     /\ activeSuggestionIndex' = r.active
     /\ UNCHANGED aside
     /\ lastEvent' = Event("input", "", <<>>)
     /\ UNCHANGED <<timers, source>>

OnSearchFocus_NoCancel ==
  LET r == UpdateSuggestions(TRUE, searchQuery, activeSuggestionIndex, searchIndex)
  IN /\ autocompleteOpen' = TRUE
     /\ suggestions' = r.suggestions
     /\ activeSuggestionIndex' = r.active
     /\ UNCHANGED aside
     /\ lastEvent' = Event("focus", "", <<>>)
     /\ UNCHANGED <<searchQuery, timers, source>>

OnSearchFocus ==
  LET r == UpdateSuggestions(TRUE, searchQuery, activeSuggestionIndex, searchIndex)
  IN /\ IF blurTimer # NoTimer
          THEN /\ timerState' = ClearTimeout(blurTimer, timerState)
               /\ blurTimer' = NoTimer
          ELSE UNCHANGED timers
     /\ autocompleteOpen' = TRUE
     /\ suggestions' = r.suggestions
     /\ activeSuggestionIndex' = r.active
     /\ UNCHANGED aside
     /\ lastEvent' = Event("focus", "", <<>>)
     /\ UNCHANGED <<searchQuery, source>>

\* setTimeout hands out the lowest handle not used so far
OnSearchBlur ==
  /\ \E h \in Handles : timerState[h] = "unused"
  /\ LET cleared == IF blurTimer # NoTimer
                      THEN ClearTimeout(blurTimer, timerState)
                      ELSE timerState
         handle  == CHOOSE h \in Handles :
                      /\ timerState[h] = "unused"
                      /\ \A g \in Handles : timerState[g] = "unused" => h <= g
     IN /\ timerState' = [cleared EXCEPT ![handle] = "pending"]
        /\ blurTimer' = handle
  /\ UNCHANGED aside
  /\ lastEvent' = Event("blur", "", <<>>)
  /\ UNCHANGED <<widget, source>>

\* the callback of the blur timer, 80 ms after the blur
BlurTimerFires(handle) ==
  /\ timerState[handle] = "pending"
  /\ timerState' = [timerState EXCEPT ![handle] = "fired"]
  /\ autocompleteOpen' = FALSE
  /\ activeSuggestionIndex' = -1
  /\ UNCHANGED aside
  /\ lastEvent' = Event("timer", "", <<>>)
  /\ UNCHANGED <<searchQuery, suggestions, blurTimer, source>>

ClearSearch ==
  /\ searchQuery' = <<>>
  /\ autocompleteOpen' = FALSE
  /\ activeSuggestionIndex' = -1
  /\ suggestions' = <<>>
  /\ UNCHANGED aside
  /\ lastEvent' = Event("clear", "", <<>>)
  /\ UNCHANGED <<timers, source>>

SelectSuggestion_KeepList(suggestion) ==
  /\ searchQuery' = suggestion.id
  /\ autocompleteOpen' = FALSE
  /\ activeSuggestionIndex' = -1
  /\ suggestions' = suggestions

\* selectSuggestion: what it assigns
SelectSuggestion(suggestion) ==
  /\ searchQuery' = suggestion.id
  /\ autocompleteOpen' = FALSE
  /\ activeSuggestionIndex' = -1
  /\ suggestions' = <<>>

\* a click on the i-th suggestion of the list
OnSuggestionClick(i) ==
  /\ i \in 1..Len(suggestions)
  /\ SelectSuggestion(suggestions[i])
  /\ UNCHANGED aside
  /\ lastEvent' = Event("select", "", suggestions[i].id)
  /\ UNCHANGED <<timers, source>>

KeydownHidden_Ignore(key) == UNCHANGED widget

\* onSearchKeydown while showAutocomplete is false
KeydownHidden(key) ==
  IF key = "Escape"
    THEN /\ autocompleteOpen' = FALSE
         /\ activeSuggestionIndex' = -1
         /\ UNCHANGED <<searchQuery, suggestions>>
    ELSE UNCHANGED widget

ArrowDownIndex_Wrap(active, length) ==
  IF active < 0 THEN 0 ELSE (active + 1) % length

ArrowDownIndex(active, length) ==
  IF active < 0 THEN 0
  ELSE IF active + 1 < length - 1 THEN active + 1 ELSE length - 1

ArrowUpIndex(active, length) ==
  IF active < 0 THEN length - 1
  ELSE IF active - 1 > 0 THEN active - 1 ELSE 0

EnterCommits_Positive ==
  /\ activeSuggestionIndex > 0
  /\ activeSuggestionIndex + 1 \in DOMAIN suggestions

\* Enter commits suggestions[activeSuggestionIndex] when there is one
EnterCommits ==
  /\ activeSuggestionIndex >= 0
  /\ activeSuggestionIndex + 1 \in DOMAIN suggestions

OnSearchKeydown(key) ==
  /\ IF ~ShowAutocomplete THEN KeydownHidden(key)
     ELSE IF key = "ArrowDown" THEN
       IF Len(suggestions) = 0 THEN UNCHANGED widget
       ELSE /\ activeSuggestionIndex' =
                 ArrowDownIndex(activeSuggestionIndex, Len(suggestions))
            /\ UNCHANGED <<searchQuery, autocompleteOpen, suggestions>>
     ELSE IF key = "ArrowUp" THEN
       IF Len(suggestions) = 0 THEN UNCHANGED widget
       ELSE /\ activeSuggestionIndex' =
                 ArrowUpIndex(activeSuggestionIndex, Len(suggestions))
            /\ UNCHANGED <<searchQuery, autocompleteOpen, suggestions>>
     ELSE IF key = "Enter" THEN
       IF EnterCommits
         THEN SelectSuggestion(suggestions[activeSuggestionIndex + 1])
         ELSE UNCHANGED widget
     ELSE IF key = "Escape" THEN
       /\ autocompleteOpen' = FALSE
       /\ activeSuggestionIndex' = -1
       /\ UNCHANGED <<searchQuery, suggestions>>
     ELSE UNCHANGED widget
  /\ UNCHANGED aside
  /\ lastEvent' = Event("keydown", key,
                        IF ShowAutocomplete /\ key = "Enter" /\ EnterCommits
                          THEN suggestions[activeSuggestionIndex + 1].id
                          ELSE <<>>)
  /\ UNCHANGED <<timers, source>>

\* the subscriber of the constructor, on a parsed question list
QuestionsArrive ==
  /\ questionsAlive
  /\ inflight # NoRequest
  /\ LET index == IndexOfRelease(inflight)
         r     == UpdateSuggestions(autocompleteOpen, searchQuery,
                                    activeSuggestionIndex, index)
     IN /\ searchIndex' = index
        /\ suggestions' = r.suggestions
        /\ activeSuggestionIndex' = r.active
  /\ inflight' = NoRequest
  /\ UNCHANGED aside
  /\ lastEvent' = Event("arrive", "", <<>>)
  /\ UNCHANGED <<searchQuery, autocompleteOpen, selectedReleaseIndex,
                 questionsAlive, timers>>

QuestionsFail_KeepIndex ==
  /\ questionsAlive
  /\ inflight # NoRequest
  /\ inflight' = NoRequest
  /\ questionsAlive' = FALSE
  /\ UNCHANGED aside
  /\ lastEvent' = Event("fail", "", <<>>)
  /\ UNCHANGED <<widget, searchIndex, selectedReleaseIndex, timers>>

\* the request or parseJsonl fails: catchError substitutes the empty list
\* and the subscription ends
QuestionsFail ==
  /\ questionsAlive
  /\ inflight # NoRequest
  /\ LET r == UpdateSuggestions(autocompleteOpen, searchQuery,
                                activeSuggestionIndex, <<>>)
     IN /\ searchIndex' = <<>>
        /\ suggestions' = r.suggestions
        /\ activeSuggestionIndex' = r.active
  /\ inflight' = NoRequest
  /\ questionsAlive' = FALSE
  /\ UNCHANGED aside
  /\ lastEvent' = Event("fail", "", <<>>)
  /\ UNCHANGED <<searchQuery, autocompleteOpen, selectedReleaseIndex, timers>>

Next ==
  \/ \E value \in (0..(NumReleases - 1)) \cup {NaN} : OnReleaseChange(value)
  \/ \E value \in TypedTexts : OnSearchInput(value)
  \/ OnSearchFocus
  \/ OnSearchBlur
  \/ \E handle \in Handles : BlurTimerFires(handle)
  \/ ClearSearch
  \/ \E i \in 1..MaxSuggestions : OnSuggestionClick(i)
  \/ \E key \in Keys : OnSearchKeydown(key)
  \/ QuestionsArrive
  \/ QuestionsFail

Spec == Init /\ [][Next]_vars

(***************************************************************************)
(* View model: buildViewModel as a function of report, questions, release  *)
(***************************************************************************)
\* bounds of the reports and question lists handed to buildViewModel
MaxCategories == 3
MaxQuestions == 5

SampleSize == 4

ReleaseDates == <<"2026-02-05", "2026-02-06">>

Digits == <<"1","2","3","4","5","6","7","8","9">>

NoPrompt == <<"N","o"," ","p","r","o","m","p","t">>

\* the i-th question of a list, with the given release_date; every third
\* question has no turns
DatedQuestion(i, date) ==
  [question_id  |-> <<"q", Digits[i]>>,
   category     |-> <<"c">>,
   task         |-> <<"t">>,
   turns        |-> IF i % 3 = 0 THEN <<>>
                    ELSE <<[role |-> "user", content |-> <<"P", Digits[i]>>]>>,
   answer_type  |-> <<"m","c","q">>,
   release_date |-> date,
   license      |-> "CC-BY 4.0",
   attribution  |-> "Example Source"]

QuestionLists ==
  {[i \in 1..Len(dates) |-> DatedQuestion(i, dates[i])] :
     dates \in UNION {[1..n -> {ReleaseDates[k] : k \in 1..NumReleases}] :
                        n \in 0..MaxQuestions}}

\* scores are kept times 100
CategoryScores == {50, 90}
TaskVariants ==
  {<<>>,
   <<[name |-> "t1", score |-> 50, n_questions |-> 2],
     [name |-> "t2", score |-> 90, n_questions |-> 1]>>,
   <<[name |-> "t1", score |-> 70, n_questions |-> 1],
     [name |-> "t2", score |-> 90, n_questions |-> 3],
     [name |-> "t3", score |-> 70, n_questions |-> 2]>>}

RECURSIVE SumScores(_)
SumScores(items) ==
  IF items = <<>> THEN 0 ELSE Head(items).score + SumScores(Tail(items))

\* a report whose categories, in key order, have the given scores and tasks;
\* overall is the mean of the category scores
ReportOf(scores, tasks) ==
  LET categories == [i \in 1..Len(scores) |->
                       [name |-> <<"c", Digits[i]>>, score |-> scores[i],
                        n_tasks |-> Len(tasks), tasks |-> tasks]]
  IN [overall     |-> IF Len(scores) = 0 THEN 0
                      ELSE SumScores(categories) \div Len(scores),
      categories  |-> categories,
      n_questions |-> 7,
      n_missing   |-> 1]

Reports ==
  {ReportOf(scores, tasks) :
     scores \in UNION {[1..n -> CategoryScores] : n \in 0..MaxCategories},
     tasks \in TaskVariants}

SortDescending_Ascending(items) ==
  LET RECURSIVE Sorted(_)
      Sorted(xs) ==
        IF xs = <<>> THEN <<>>
        ELSE LET sorted == Sorted(SubSeq(xs, 1, Len(xs) - 1))
                 x      == xs[Len(xs)]
                 k      == Cardinality({i \in 1..Len(sorted) : sorted[i].score <= x.score})
             IN SubSeq(sorted, 1, k) \o <<x>> \o SubSeq(sorted, k + 1, Len(sorted))
  IN Sorted(items)

\* .sort((a, b) => b.score - a.score): a stable sort, built by inserting each
\* item after the items that do not score lower
SortDescending(items) ==
  LET RECURSIVE Sorted(_)
      Sorted(xs) ==
        IF xs = <<>> THEN <<>>
        ELSE LET sorted == Sorted(SubSeq(xs, 1, Len(xs) - 1))
                 x      == xs[Len(xs)]
                 k      == Cardinality({i \in 1..Len(sorted) : sorted[i].score >= x.score})
             IN SubSeq(sorted, 1, k) \o <<x>> \o SubSeq(sorted, k + 1, Len(sorted))
  IN Sorted(items)

CategoryViews(report) ==
  SortDescending(
    [i \in 1..Len(report.categories) |->
       LET payload == report.categories[i]
       IN [name   |-> payload.name,
           score  |-> payload.score,
           nTasks |-> payload.n_tasks,
           tasks  |-> SortDescending(
                        [j \in 1..Len(payload.tasks) |->
                           [name       |-> payload.tasks[j].name,
                            score      |-> payload.tasks[j].score,
                            nQuestions |-> payload.tasks[j].n_questions]])]])

QuestionView(question) ==
  [id         |-> question.question_id,
   prompt     |-> IF Len(question.turns) > 0 THEN question.turns[1].content
                  ELSE NoPrompt,
   category   |-> question.category,
   task       |-> question.task,
   answerType |-> question.answer_type]

SampleQuestions_Three(questions) ==
  LET n == IF Len(questions) < SampleSize - 1 THEN Len(questions) ELSE SampleSize - 1
  IN [i \in 1..n |-> QuestionView(questions[i])]

\* questions.slice(0, 4).map(...)
SampleQuestions(questions) ==
  LET n == IF Len(questions) < SampleSize THEN Len(questions) ELSE SampleSize
  IN [i \in 1..n |-> QuestionView(questions[i])]

BuildViewModel(report, questions, releaseId) ==
  LET categories == CategoryViews(report)
  IN [releaseId       |-> releaseId,
      releaseDate     |-> IF Len(questions) > 0 THEN questions[1].release_date
                          ELSE releaseId,
      overall         |-> report.overall,
      nQuestions      |-> report.n_questions,
      nMissing        |-> report.n_missing,
      categoryCount   |-> Len(report.categories),
      categories      |-> categories,
      categoryHeaders |-> [i \in 1..Len(categories) |-> categories[i].name],
      sampleQuestions |-> SampleQuestions(questions)]

\* the arguments of one call
ViewModelInit ==
  /\ SearchIdle
  /\ CalendarIdle
  /\ StreamsIdle
  /\ PromptIdle
  /\ vmReport \in Reports
  /\ vmQuestions \in QuestionLists
  /\ vmReleaseId \in {ReleaseDates[k] : k \in 1..NumReleases}
  /\ viewModels = <<>>

BuildViewModelCall ==
  /\ viewModels = <<>>
  /\ viewModels' = <<BuildViewModel(vmReport, vmQuestions, vmReleaseId)>>
  /\ UNCHANGED <<vmReport, vmQuestions, vmReleaseId, searchVars, calendarVars,
                 streamVars, promptVars>>

ViewModelNext == BuildViewModelCall

ViewModelSpec == ViewModelInit /\ [][ViewModelNext]_vars

(***************************************************************************)
(* Calendar date resolver: getHebrewParts and findNextHebrewDate           *)
(***************************************************************************)
\* bound on the calendar calls of one behaviour
MaxCalls == 3

\* const maxDays = 700
MaxDays == 700

\* The months the formatter of the runtime reports, from 1 Tishri 5786 on,
\* with the month names of the en-u-ca-hebrew locale data; day 0 is the
\* first day of the first month.  5787 is a leap year.
Months == <<
   [month |-> <<"T","i","s","h","r","i">>, length |-> 30, year |-> 5786],
   [month |-> <<"H","e","s","h","v","a","n">>, length |-> 29, year |-> 5786],
   [month |-> <<"K","i","s","l","e","v">>, length |-> 30, year |-> 5786],
   [month |-> <<"T","e","v","e","t">>, length |-> 29, year |-> 5786],
   [month |-> <<"S","h","e","v","a","t">>, length |-> 30, year |-> 5786],
   [month |-> <<"A","d","a","r">>, length |-> 29, year |-> 5786],
   [month |-> <<"N","i","s","a","n">>, length |-> 30, year |-> 5786],
   [month |-> <<"I","y","a","r">>, length |-> 29, year |-> 5786],
   [month |-> <<"S","i","v","a","n">>, length |-> 30, year |-> 5786],
   [month |-> <<"T","a","m","u","z">>, length |-> 29, year |-> 5786],
   [month |-> <<"A","v">>, length |-> 30, year |-> 5786],
   [month |-> <<"E","l","u","l">>, length |-> 29, year |-> 5786],
   [month |-> <<"T","i","s","h","r","i">>, length |-> 30, year |-> 5787],
   [month |-> <<"H","e","s","h","v","a","n">>, length |-> 30, year |-> 5787],
   [month |-> <<"K","i","s","l","e","v">>, length |-> 30, year |-> 5787],
   [month |-> <<"T","e","v","e","t">>, length |-> 29, year |-> 5787],
   [month |-> <<"S","h","e","v","a","t">>, length |-> 30, year |-> 5787],
   [month |-> <<"A","d","a","r"," ","I">>, length |-> 30, year |-> 5787],
   [month |-> <<"A","d","a","r"," ","I","I">>, length |-> 29, year |-> 5787],
   [month |-> <<"N","i","s","a","n">>, length |-> 30, year |-> 5787],
   [month |-> <<"I","y","a","r">>, length |-> 29, year |-> 5787],
   [month |-> <<"S","i","v","a","n">>, length |-> 30, year |-> 5787],
   [month |-> <<"T","a","m","u","z">>, length |-> 29, year |-> 5787],
   [month |-> <<"A","v">>, length |-> 30, year |-> 5787],
   [month |-> <<"E","l","u","l">>, length |-> 29, year |-> 5787],
   [month |-> <<"T","i","s","h","r","i">>, length |-> 30, year |-> 5788],
   [month |-> <<"H","e","s","h","v","a","n">>, length |-> 29, year |-> 5788],
   [month |-> <<"K","i","s","l","e","v">>, length |-> 30, year |-> 5788],
   [month |-> <<"T","e","v","e","t">>, length |-> 29, year |-> 5788],
   [month |-> <<"S","h","e","v","a","t">>, length |-> 30, year |-> 5788],
   [month |-> <<"A","d","a","r">>, length |-> 29, year |-> 5788],
   [month |-> <<"N","i","s","a","n">>, length |-> 30, year |-> 5788],
   [month |-> <<"I","y","a","r">>, length |-> 29, year |-> 5788],
   [month |-> <<"S","i","v","a","n">>, length |-> 30, year |-> 5788],
   [month |-> <<"T","a","m","u","z">>, length |-> 29, year |-> 5788],
   [month |-> <<"A","v">>, length |-> 30, year |-> 5788],
   [month |-> <<"E","l","u","l">>, length |-> 29, year |-> 5788],
   [month |-> <<"T","i","s","h","r","i">>, length |-> 30, year |-> 5789] >>

RECURSIVE MonthStart(_)
MonthStart(i) == IF i = 1 THEN 0 ELSE MonthStart(i - 1) + Months[i - 1].length

CalendarDays == MonthStart(Len(Months)) + Months[Len(Months)].length

\* formatToParts(date) reduced to { day, month, year }, for every day
HebrewCalendar ==
  [d \in 0..(CalendarDays - 1) |->
     LET i == CHOOSE k \in 1..Len(Months) :
                MonthStart(k) <= d /\ d < MonthStart(k) + Months[k].length
     IN [day |-> d - MonthStart(i) + 1, month |-> Months[i].month,
         year |-> Months[i].year]]

Adar == <<"a","d","a","r">>
AdarI == <<"a","d","a","r"," ","i">>
Nisan == <<"n","i","s","a","n">>
Tishrei == <<"t","i","s","h","r","e","i">>
Tishri == <<"t","i","s","h","r","i">>
Kislev == <<"k","i","s","l","e","v">>

\* the predicates handed to findNextHebrewDate: those of
\* computeHolidayDateLookup for Purim, Pesach, Rosh Hashana, Chanukah and
\* Rosh Chodesh, and one on the year of a date
Matches(match, h) ==
  CASE match = "purim" ->
         /\ h.day = 14
         /\ StartsWith(ToLowerCase(h.month), Adar)
         /\ ToLowerCase(h.month) # AdarI
    [] match = "pesach" -> h.day = 15 /\ ToLowerCase(h.month) = Nisan
    [] match = "rosh_hashana" -> h.day = 1 /\ ToLowerCase(h.month) = Tishrei
    [] match = "chanukah" -> h.day = 25 /\ ToLowerCase(h.month) = Kislev
    [] match = "rosh_chodesh" -> h.day = 1
    [] match = "new_year_5788" ->
         h.day = 1 /\ h.year = 5788 /\ ToLowerCase(h.month) = Tishri

MatchNames == {"purim", "pesach", "rosh_hashana", "chanukah", "rosh_chodesh",
               "new_year_5788"}

\* the anchors: a day of the calendar and an hour of that day
Anchors == {[day |-> 0, hour |-> 0], [day |-> 38, hour |-> 23],
            [day |-> 39, hour |-> 9], [day |-> 200, hour |-> 12],
            [day |-> 392, hour |-> 18]}

EnsureFormatter_RetryAfterThrow(initialized, formatter, count, throws) ==
  IF ~initialized
    THEN [initialized |-> ~throws,
          formatter   |-> IF throws THEN 0 ELSE count + 1,
          count       |-> count + 1]
    ELSE [initialized |-> initialized, formatter |-> formatter, count |-> count]

\* the first lines of getHebrewParts: the formatter is built on the first
\* call, and the flag is set before the construction is tried
EnsureFormatter(initialized, formatter, count, throws) ==
  IF ~initialized
    THEN [initialized |-> TRUE,
          formatter   |-> IF throws THEN 0 ELSE count + 1,
          count       |-> count + 1]
    ELSE [initialized |-> initialized, formatter |-> formatter, count |-> count]

\* getHebrewParts(date) once the formatter field is settled: <<>> for null
HebrewParts(formatter, day) ==
  IF formatter = 0 THEN <<>>
  ELSE LET h == HebrewCalendar[day]
       IN IF h.day = 0 \/ h.month = <<>> \/ h.year = 0 THEN <<>> ELSE <<h>>

FindNext_ExclusiveBound(formatter, anchor, match) ==
  LET hits == {i \in 0..(MaxDays - 1) :
                 LET parts == HebrewParts(formatter, anchor.day + i)
                 IN parts # <<>> /\ Matches(match, parts[1])}
  IN IF hits = {} THEN <<>>
     ELSE <<[day  |-> anchor.day + (CHOOSE i \in hits : \A j \in hits : i <= j),
             hour |-> 12]>>

\* the loop of findNextHebrewDate: the first i in 0..maxDays whose day
\* matches, at noon; <<>> for null
FindNext(formatter, anchor, match) ==
  LET hits == {i \in 0..MaxDays :
                 LET parts == HebrewParts(formatter, anchor.day + i)
                 IN parts # <<>> /\ Matches(match, parts[1])}
  IN IF hits = {} THEN <<>>
     ELSE <<[day  |-> anchor.day + (CHOOSE i \in hits : \A j \in hits : i <= j),
             hour |-> 12]>>

\* whether new Intl.DateTimeFormat throws matters on the first call only
ThrowChoices == IF hebrewPartsFormatterInitialized THEN {FALSE} ELSE BOOLEAN

FindNextHebrewDate(anchor, match, throws) ==
  LET f == EnsureFormatter(hebrewPartsFormatterInitialized, hebrewPartsFormatter,
                           constructions, throws)
  IN /\ calendarCalls < MaxCalls
     /\ hebrewPartsFormatterInitialized' = f.initialized
     /\ hebrewPartsFormatter' = f.formatter
     /\ constructions' = f.count
     /\ calendarCalls' = calendarCalls + 1
     /\ lastCall' = [op |-> "find", day |-> anchor.day, hour |-> anchor.hour,
                     match |-> match,
                     result |-> FindNext(f.formatter, anchor, match)]
     /\ UNCHANGED <<searchVars, vmVars, streamVars, promptVars>>

GetHebrewParts(date, throws) ==
  LET f == EnsureFormatter(hebrewPartsFormatterInitialized, hebrewPartsFormatter,
                           constructions, throws)
  IN /\ calendarCalls < MaxCalls
     /\ hebrewPartsFormatterInitialized' = f.initialized
     /\ hebrewPartsFormatter' = f.formatter
     /\ constructions' = f.count
     /\ calendarCalls' = calendarCalls + 1
     /\ lastCall' = [op |-> "parts", day |-> date.day, hour |-> date.hour,
                     match |-> "",
                     result |-> HebrewParts(f.formatter, date.day)]
     /\ UNCHANGED <<searchVars, vmVars, streamVars, promptVars>>

CalendarInit ==
  /\ SearchIdle
  /\ ViewModelIdle
  /\ CalendarIdle
  /\ StreamsIdle
  /\ PromptIdle

CalendarNext ==
  \/ \E anchor \in Anchors, match \in MatchNames, throws \in ThrowChoices :
       FindNextHebrewDate(anchor, match, throws)
  \/ \E date \in Anchors, throws \in ThrowChoices :
       GetHebrewParts(date, throws)

CalendarSpec == CalendarInit /\ [][CalendarNext]_vars

(***************************************************************************)
(* Streams: report$, questions$ and vm$                                    *)
(***************************************************************************)
\* what the streams leave alone
streamAside == <<timers, vmVars, calendarVars, promptVars>>

\* assets/results.sample.json
FetchedReport == ReportOf(<<50, 90>>, <<>>)

\* The bodies questions.jsonl may come back with.  The JSON text of the
\* i-th question of a release is written as the digit i; "{" is a line
\* that JSON.parse rejects.
QuestionTexts ==
  {<<"1","\n","2","\n","3">>,
   <<"1","\r","\n","\r","\n"," ","2"," ","\n">>,
   <<"1","\n","{","\n","3">>,
   <<>>}

\* JSON.parse(line) succeeds
IsJson(line) == Len(line) = 1 /\ \E i \in 1..Len(Digits) : Digits[i] = line[1]

\* JSON.parse(line) as Question, for a line it accepts
JsonParse(line, date) ==
  DatedQuestion(CHOOSE i \in 1..Len(Digits) : Digits[i] = line[1], date)

\* split(/\r?\n/), trim, filter(line.length > 0)
JsonLines(text) ==
  LET lines == SplitLines(text)
  IN SelectSeq([i \in 1..Len(lines) |-> Trim(lines[i])], LAMBDA line : line # <<>>)

ParseJsonl_SkipMalformed(text, date) ==
  LET lines == SelectSeq(JsonLines(text), IsJson)
  IN [ok        |-> TRUE,
      questions |-> [i \in 1..Len(lines) |-> JsonParse(lines[i], date)]]

\* parseJsonl(text): JSON.parse throws on the first line it rejects, and
\* then no list is returned
ParseJsonl(text, date) ==
  LET lines == JsonLines(text)
  IN IF \A i \in 1..Len(lines) : IsJson(lines[i])
       THEN [ok        |-> TRUE,
             questions |-> [i \in 1..Len(lines) |-> JsonParse(lines[i], date)]]
       ELSE [ok |-> FALSE, questions |-> <<>>]

\* of<ViewModel | null>(null)
NullEmission == <<[null |-> TRUE, vm |-> BuildViewModel(NoReport, <<>>, "")]>>

\* what combineLatest and map emit when one of the sources emits: nothing
\* until each source has a value, else the view model of the latest values
Latest(loaded, replay, index) ==
  IF loaded /\ replay # <<>>
    THEN <<[null |-> FALSE,
            vm   |-> BuildViewModel(FetchedReport, replay[1],
                                    ReleaseDates[index + 1])]>>
    ELSE NoEmission

\* the emission reaches every live subscription
Deliver(subs, emission) ==
  [s \in DOMAIN subs |->
     IF subs[s].status = "live" /\ emission # NoEmission
       THEN [subs[s] EXCEPT !.last = emission]
       ELSE subs[s]]

CatchError_Rethrow(subs) ==
  [s \in DOMAIN subs |->
     IF subs[s].status = "live"
       THEN [subs[s] EXCEPT !.status = "done", !.error = TRUE]
       ELSE subs[s]]

\* a source of combineLatest fails: catchError replaces the failure by
\* of(null), which emits null and completes
CatchError(subs) ==
  [s \in DOMAIN subs |->
     IF subs[s].status = "live"
       THEN [status |-> "done", last |-> NullEmission, error |-> FALSE]
       ELSE subs[s]]

\* the source of questions$ is subscribed to releaseId$
Connected == questionsAlive \/ reconnected

\* a template or a caller subscribes to vm$: combineLatest subscribes to
\* report$, questions$ and releaseId$.  shareReplay subscribes to its
\* source when it has no subscription to it: the first time, and again
\* after a failure.
SubscribeVm(s) ==
  /\ subscribers[s].status = "none"
  /\ \A t \in 1..(s - 1) : subscribers[t].status # "none"
  /\ reportState' = IF reportState \in {"idle", "failed"} THEN "pending"
                    ELSE reportState
  /\ reconnected' = IF Connected THEN reconnected ELSE TRUE
  /\ inflight' = IF Connected THEN inflight ELSE selectedReleaseIndex
  /\ subscribers' =
       [subscribers EXCEPT ![s] =
          [status |-> "live",
           last   |-> Latest(reportState = "loaded", questionsReplay,
                             selectedReleaseIndex),
           error  |-> FALSE]]
  /\ fetchesStarted' =
       [questions |-> IF Connected THEN 0 ELSE 1,
        report    |-> IF reportState \in {"idle", "failed"} THEN 1 ELSE 0]
  /\ lastEvent' = Event("subscribe", "", <<>>)
  /\ UNCHANGED <<widget, searchIndex, selectedReleaseIndex, questionsAlive,
                 questionsReplay, dropped, streamAside>>

\* the response of assets/results.sample.json
ReportArrives ==
  /\ reportState = "pending"
  /\ reportState' = "loaded"
  /\ subscribers' = Deliver(subscribers,
                            Latest(TRUE, questionsReplay, selectedReleaseIndex))
  /\ fetchesStarted' = NoFetch
  /\ lastEvent' = Event("report", "", <<>>)
  /\ UNCHANGED <<widget, source, reconnected, questionsReplay, dropped,
                 streamAside>>

\* the request of the report fails: shareReplay forgets its subscription
ReportFails ==
  /\ reportState = "pending"
  /\ reportState' = "failed"
  /\ subscribers' = CatchError(subscribers)
  /\ fetchesStarted' = NoFetch
  /\ lastEvent' = Event("reportFail", "", <<>>)
  /\ UNCHANGED <<widget, source, reconnected, questionsReplay, dropped,
                 streamAside>>

\* onReleaseChange with the streams: releaseIndex$.next(value) reaches the
\* switchMap of questions$, if its source is subscribed, and the
\* combineLatest of every live subscription
SelectRelease(value) ==
  /\ lastEvent' = Event("release", "", <<>>)
  /\ IF value = NaN
       THEN /\ fetchesStarted' = NoFetch
            /\ UNCHANGED <<widget, source, reportState, reconnected,
                           questionsReplay, subscribers, dropped>>
       ELSE /\ selectedReleaseIndex' = value
            /\ inflight' = IF Connected THEN value ELSE inflight
            \* switchMap unsubscribes from the request it was waiting for
            /\ dropped' = IF Connected /\ inflight # NoRequest
                            THEN dropped \cup {inflight}
                            ELSE dropped
            /\ fetchesStarted' = [questions |-> IF Connected THEN 1 ELSE 0,
                                  report    |-> 0]
            /\ subscribers' = Deliver(subscribers,
                                      Latest(reportState = "loaded",
                                             questionsReplay, value))
            /\ activeSuggestionIndex' = -1
            /\ suggestions' = <<>>
            /\ UNCHANGED <<searchQuery, autocompleteOpen, searchIndex,
                           questionsAlive, reportState, reconnected,
                           questionsReplay>>
  /\ UNCHANGED <<streamAside>>

\* questions$ fails: shareReplay forgets its subscription and its value,
\* the subscription of the constructor indexes the empty list and ends,
\* and every live subscription to vm$ ends
QuestionsError ==
  /\ LET r == UpdateSuggestions(autocompleteOpen, searchQuery,
                                activeSuggestionIndex, <<>>)
     IN IF questionsAlive
          THEN /\ searchIndex' = <<>>
               /\ suggestions' = r.suggestions
               /\ activeSuggestionIndex' = r.active
          ELSE UNCHANGED <<searchIndex, suggestions, activeSuggestionIndex>>
  /\ questionsAlive' = FALSE
  /\ reconnected' = FALSE
  /\ questionsReplay' = <<>>
  /\ inflight' = NoRequest
  /\ subscribers' = CatchError(subscribers)
  /\ fetchesStarted' = NoFetch
  /\ UNCHANGED <<searchQuery, autocompleteOpen, selectedReleaseIndex,
                 reportState, streamAside>>

\* the response of questions.jsonl: parseJsonl, then the replay value, the
\* search index and the view models
QuestionsResponse(text) ==
  /\ Connected
  /\ inflight # NoRequest
  /\ lastEvent' = Event("response", "", text)
  /\ UNCHANGED dropped
  /\ LET parsed == ParseJsonl(text, ReleaseDates[inflight + 1])
         index  == BuildIndex(parsed.questions)
         r      == UpdateSuggestions(autocompleteOpen, searchQuery,
                                     activeSuggestionIndex, index)
     IN IF parsed.ok
          THEN /\ questionsReplay' = <<parsed.questions>>
               /\ IF questionsAlive
                    THEN /\ searchIndex' = index
                         /\ suggestions' = r.suggestions
                         /\ activeSuggestionIndex' = r.active
                    ELSE UNCHANGED <<searchIndex, suggestions,
                                     activeSuggestionIndex>>
               /\ subscribers' = Deliver(subscribers,
                                         Latest(reportState = "loaded",
                                                <<parsed.questions>>,
                                                selectedReleaseIndex))
               /\ inflight' = NoRequest
               /\ fetchesStarted' = NoFetch
               /\ UNCHANGED <<searchQuery, autocompleteOpen,
                              selectedReleaseIndex, questionsAlive, reportState,
                              reconnected, streamAside>>
          ELSE QuestionsError

\* the request of questions.jsonl fails
QuestionsRequestFails ==
  /\ Connected
  /\ inflight # NoRequest
  /\ lastEvent' = Event("requestFail", "", <<>>)
  /\ UNCHANGED dropped
  /\ QuestionsError

StaleResponse_Merge(release, text) ==
  /\ release \in dropped
  /\ dropped' = dropped \ {release}
  /\ lastEvent' = Event("staleResponse", ReleaseDates[release + 1], text)
  /\ LET parsed == ParseJsonl(text, ReleaseDates[release + 1])
         index  == BuildIndex(parsed.questions)
         r      == UpdateSuggestions(autocompleteOpen, searchQuery,
                                     activeSuggestionIndex, index)
     IN IF Connected /\ parsed.ok
          THEN /\ questionsReplay' = <<parsed.questions>>
               /\ IF questionsAlive
                    THEN /\ searchIndex' = index
                         /\ suggestions' = r.suggestions
                         /\ activeSuggestionIndex' = r.active
                    ELSE UNCHANGED <<searchIndex, suggestions,
                                     activeSuggestionIndex>>
               /\ subscribers' = Deliver(subscribers,
                                         Latest(reportState = "loaded",
                                                <<parsed.questions>>,
                                                selectedReleaseIndex))
               /\ UNCHANGED <<searchQuery, autocompleteOpen,
                              selectedReleaseIndex, inflight, questionsAlive>>
          ELSE UNCHANGED <<widget, source, questionsReplay, subscribers>>
  /\ fetchesStarted' = NoFetch
  /\ UNCHANGED <<reportState, reconnected, streamAside>>

\* the server answers a request that switchMap has unsubscribed from:
\* nothing is subscribed to it, the body is neither parsed nor passed on
StaleResponse(release, text) ==
  /\ release \in dropped
  /\ dropped' = dropped \ {release}
  /\ lastEvent' = Event("staleResponse", ReleaseDates[release + 1], text)
  /\ fetchesStarted' = NoFetch
  /\ UNCHANGED <<widget, source, reportState, reconnected, questionsReplay,
                 subscribers, streamAside>>

StreamInit ==
  /\ SearchIdle
  /\ ViewModelIdle
  /\ CalendarIdle
  /\ StreamsIdle
  /\ PromptIdle

StreamNext ==
  \/ \E s \in 1..MaxSubscribers : SubscribeVm(s)
  \/ ReportArrives
  \/ ReportFails
  \/ \E value \in (0..(NumReleases - 1)) \cup {NaN} : SelectRelease(value)
  \/ \E text \in QuestionTexts : QuestionsResponse(text)
  \/ QuestionsRequestFails
  \/ \E release \in 0..(NumReleases - 1), text \in QuestionTexts :
       StaleResponse(release, text)

StreamSpec == StreamInit /\ [][StreamNext]_vars

(***************************************************************************)
(* Prompt preview: options, instruction and details                        *)
(***************************************************************************)
\* bound on the generated lines of a prompt
MaxLines == 4

\* details.slice(0, 4)
MaxDetails == 4

OptionLetters == {"A", "B", "C", "D"}

\* the characters of the model that `.` of a regular expression skips
LineTerminators == {"\n", "\r"}

Answer == <<"a","n","s","w","e","r">>
Return == <<"r","e","t","u","r","n">>

\* line.match(/^([ABCD])\.\s+(.*)$/): <<>> for null.  \s+ takes the whole
\* run of white space after the dot, and (.*)$ must reach the end of the
\* line without a line terminator.
OptionMatch(line) ==
  LET run  == IF Len(line) >= 3
                THEN RunLength(SubSeq(line, 3, Len(line)), WhiteSpace, TRUE)
                ELSE 0
      text == SubSeq(line, 3 + run, Len(line))
  IN IF /\ Len(line) >= 3
        /\ line[1] \in OptionLetters
        /\ line[2] = "."
        /\ run >= 1
        /\ \A i \in 1..Len(text) : text[i] \notin LineTerminators
       THEN <<[letter |-> line[1], text |-> text]>>
       ELSE <<>>

ClassifyLine_FirstInstruction(acc, line) ==
  LET match   == OptionMatch(line)
      lowered == ToLowerCase(line)
  IN IF match # <<>> THEN [acc EXCEPT !.options = Append(@, match[1])]
     ELSE IF StartsWith(lowered, Answer) \/ StartsWith(lowered, Return)
       THEN [acc EXCEPT !.instruction = IF @ = <<>> THEN line ELSE @]
     ELSE [acc EXCEPT !.details = Append(@, line)]

\* the body of the loop over lines.slice(1)
ClassifyLine(acc, line) ==
  LET match   == OptionMatch(line)
      lowered == ToLowerCase(line)
  IN IF match # <<>> THEN [acc EXCEPT !.options = Append(@, match[1])]
     ELSE IF StartsWith(lowered, Answer) \/ StartsWith(lowered, Return)
       THEN [acc EXCEPT !.instruction = line]
     ELSE [acc EXCEPT !.details = Append(@, line)]

RECURSIVE ClassifyLines(_, _)
ClassifyLines(acc, lines) ==
  IF lines = <<>> THEN acc
  ELSE ClassifyLines(ClassifyLine(acc, Head(lines)), Tail(lines))

BuildPromptPreview(prompt) ==
  LET lines == PromptLines(prompt)
      acc   == ClassifyLines([options |-> <<>>, details |-> <<>>,
                              instruction |-> <<>>],
                             IF lines = <<>> THEN <<>> ELSE Tail(lines))
      n     == IF Len(acc.details) < MaxDetails THEN Len(acc.details)
               ELSE MaxDetails
  IN [title       |-> IF Len(lines) > 0 THEN lines[1] ELSE UntitledQuestion,
      options     |-> acc.options,
      instruction |-> acc.instruction,
      details     |-> SubSeq(acc.details, 1, n)]

\* the lines the generated prompts are made of: a blank line, the first
\* line of a blurb, an option, two instructions and a detail
LinePool ==
  {<<>>,
   LensDefinitions,
   <<"A","."," ","x">>,
   <<"A","n","s","w","e","r"," ","a">>,
   <<"R","E","T","U","R","N"," ","b">>,
   <<"d">>}

\* what a generated prompt starts with: nothing, or a title, an option and
\* three details
Openings ==
  {<<>>, <<<<"T">>, <<"B","."," ","y">>, <<"e">>, <<"f">>, <<"g">>>>}

RECURSIVE JoinLines(_)
JoinLines(lines) ==
  IF lines = <<>> THEN <<>>
  ELSE IF Len(lines) = 1 THEN lines[1]
  ELSE lines[1] \o <<"\n">> \o JoinLines(Tail(lines))

\* prompts with a carriage return inside an option, with lines that only
\* resemble options, with \r\n line ends and indented lines around a blurb,
\* and with a title that reads like an instruction
SpecialPrompts ==
  {<<"T","\n","A","."," ","x","\r","y">>,
   <<"T","\n","C","."," ","\r","z">>,
   <<"T","\n","A",".","x","\n","b","."," ","y","\n","E","."," ","z","\n",
     "C",".","\t","z","\n","D",".">>,
   <<" ","\r","\n","\r","\n","L","e","n","s"," ","D","e","f","i","n","i","t",
     "i","o","n","s",":","\r","\n","m","\r","\n"," ","\r","\n","T"," ","\r",
     "\n"," ","D","."," "," ","w">>,
   <<"A","n","s","w","e","r","\n","a","n","s","w","e","r","-","2">>}

Prompts ==
  SpecialPrompts \cup
  {JoinLines(opening \o lines) :
     opening \in Openings,
     lines \in UNION {[1..n -> LinePool] : n \in 0..MaxLines}}

PromptInit ==
  /\ SearchIdle
  /\ ViewModelIdle
  /\ CalendarIdle
  /\ StreamsIdle
  /\ previewPrompt \in Prompts
  /\ previews = <<>>

BuildPromptPreviewCall ==
  /\ previews = <<>>
  /\ previews' = <<BuildPromptPreview(previewPrompt)>>
  /\ UNCHANGED <<previewPrompt, searchVars, vmVars, calendarVars, streamVars>>

PromptNext == BuildPromptPreviewCall

PromptSpec == PromptInit /\ [][PromptNext]_vars

(***************************************************************************)
(* Properties                                                              *)
(***************************************************************************)
Query == ToLowerCase(Trim(searchQuery))
QueryTerms == SplitWhiteSpace(Query)
TermsOccurIn(record) ==
  \A i \in 1..Len(QueryTerms) : Includes(record.haystack, QueryTerms[i])
MatchingPositions == {k \in 1..Len(searchIndex) : TermsOccurIn(searchIndex[k])}
Recomputed == lastEvent.kind \in {"input", "focus", "arrive", "fail"}
PositionInIndex(record) == CHOOSE k \in 1..Len(searchIndex) : searchIndex[k] = record

\* C1: in every reachable state, a trimmed search query of fewer than 2
\* characters means an empty suggestion list, whatever the index holds.
C1_ShortQueryNoSuggestions ==
  Len(Trim(searchQuery)) < 2 => suggestions = <<>>

\* a one-character query typed while the index holds records containing it
C1_Witness ==
  /\ lastEvent.kind = "input"
  /\ autocompleteOpen
  /\ Len(Trim(searchQuery)) = 1
  /\ \E k \in 1..Len(searchIndex) : Includes(searchIndex[k].haystack, Query)
  /\ suggestions = <<>>

\* C2: after a recompute with the box open and a query of length >= 2, every
\* suggestion is a record of the index whose haystack contains every term of
\* the query, there are at most 8 suggestions, and when at most 8 records
\* match every matching record is a suggestion.
C2_ConjunctiveMatchTopEight ==
  (Recomputed /\ autocompleteOpen /\ Len(Query) >= 2) =>
    /\ \A i \in 1..Len(suggestions) :
         /\ \E k \in 1..Len(searchIndex) : searchIndex[k] = suggestions[i]
         /\ TermsOccurIn(suggestions[i])
    /\ Len(suggestions) <= 8
    /\ Cardinality(MatchingPositions) <= 8 =>
         \A k \in MatchingPositions :
           \E i \in 1..Len(suggestions) : suggestions[i] = searchIndex[k]

\* a two-term query: some record holds both terms and is listed, another
\* holds only one of them and is not
C2_Witness ==
  /\ Recomputed
  /\ autocompleteOpen
  /\ Len(QueryTerms) = 2
  /\ Len(suggestions) >= 2
  /\ \E k \in 1..Len(searchIndex) :
       /\ Includes(searchIndex[k].haystack, QueryTerms[1])
       /\ ~Includes(searchIndex[k].haystack, QueryTerms[2])

\* the tier score of the ranking, times 1000
TierScore(record) ==
  LET id       == ToLowerCase(record.id)
      task     == ToLowerCase(record.task)
      category == ToLowerCase(record.category)
      title    == ToLowerCase(record.title)
  IN CASE StartsWith(id, Query)    -> 0
       [] Includes(id, Query)       -> 1000 + IndexOf(id, Query)
       [] StartsWith(task, Query)   -> 2000
       [] Includes(task, Query)     -> 3000 + IndexOf(task, Query)
       [] Includes(category, Query) -> 4000 + IndexOf(category, Query)
       [] Includes(title, Query)    -> 5000 + IndexOf(title, Query)
       [] OTHER                     -> 10000

\* C3: the suggestion list is in non-decreasing order of tier score, records
\* of equal score are in the order of the search index, and a record whose id
\* starts with the query comes before every record matched by haystack only.
C3_RankedByTier ==
  \A i, j \in 1..Len(suggestions) :
    /\ i < j =>
         /\ TierScore(suggestions[i]) <= TierScore(suggestions[j])
         /\ TierScore(suggestions[i]) = TierScore(suggestions[j]) =>
              PositionInIndex(suggestions[i]) < PositionInIndex(suggestions[j])
    /\ (StartsWith(ToLowerCase(suggestions[i].id), Query)
          /\ TierScore(suggestions[j]) = 10000) => i < j

\* an id-prefix match listed before a haystack-only match that precedes it in
\* the index, and two records of equal score
C3_Witness ==
  /\ \E i, j \in 1..Len(suggestions) :
       /\ i < j
       /\ TierScore(suggestions[i]) = 0
       /\ TierScore(suggestions[j]) = 10000
       /\ PositionInIndex(suggestions[j]) < PositionInIndex(suggestions[i])

\* C4: with the listing open and not empty, ArrowDown moves activeIndex from
\* -1 to 0, from an index below the last to the next one, and leaves it at
\* the last index: it never wraps to 0.
C4_ArrowDownNoWrap ==
  [][(/\ lastEvent'.kind = "keydown"
      /\ lastEvent'.key = "ArrowDown"
      /\ autocompleteOpen
      /\ Len(suggestions) > 0) =>
       activeSuggestionIndex' =
         IF activeSuggestionIndex = -1 THEN 0
         ELSE IF activeSuggestionIndex < Len(suggestions) - 1
           THEN activeSuggestionIndex + 1
           ELSE Len(suggestions) - 1]_vars

\* after an ArrowDown the last of several suggestions is the active one
C4_Witness ==
  /\ lastEvent.kind = "keydown"
  /\ lastEvent.key = "ArrowDown"
  /\ autocompleteOpen
  /\ Len(suggestions) >= 2
  /\ activeSuggestionIndex = Len(suggestions) - 1

\* C5: a focus cancels the close timer of an earlier blur that has not fired
\* and opens the box; a cancelled timer never fires; the box is closed again
\* only by a later event.
C5_FocusCancelsBlurTimer ==
  [][/\ lastEvent'.kind = "focus" =>
          /\ \A h \in Handles :
               timerState[h] = "pending" => timerState'[h] = "cleared"
          /\ Pending' = {}
          /\ autocompleteOpen'
     /\ \A h \in Handles :
          timerState[h] = "cleared" => timerState'[h] = "cleared"
     /\ (autocompleteOpen /\ ~autocompleteOpen') =>
          lastEvent'.kind \in {"timer", "keydown", "clear", "select"}]_vars

\* the first blur timer was cleared by a focus, no other timer was created
C5_Witness ==
  /\ lastEvent.kind = "focus"
  /\ timerState[1] = "cleared"
  /\ timerState[2] = "unused"
  /\ blurTimer = NoTimer
  /\ autocompleteOpen

\* C6: after a select or a clear no blur timer is pending.
C6_SelectClearCancelTimer ==
  lastEvent.kind \in {"select", "clear"} => Pending = {}

\* C7: a select or a clear leaves the box closed, the suggestion list empty
\* and activeIndex at -1, with the query empty (clear) or the id of the
\* selected record (select).
C7_SelectClearReset ==
  lastEvent.kind \in {"select", "clear"} =>
    /\ ~autocompleteOpen
    /\ suggestions = <<>>
    /\ activeSuggestionIndex = -1
    /\ searchQuery = IF lastEvent.kind = "clear" THEN <<>> ELSE lastEvent.id

\* a suggestion was clicked
C7_Witness ==
  /\ lastEvent.kind = "select"
  /\ Len(lastEvent.id) > 0
  /\ searchQuery = lastEvent.id
  /\ \E k \in 1..Len(searchIndex) : searchIndex[k].id = lastEvent.id

\* C8: after keydown(Escape) the box is closed and activeIndex is -1, whether
\* or not the listing was shown.
C8_EscapeCloses ==
  (lastEvent.kind = "keydown" /\ lastEvent.key = "Escape") =>
    (~autocompleteOpen /\ activeSuggestionIndex = -1)

\* Escape on an empty query: the listing was not shown
C8_Witness ==
  /\ lastEvent.kind = "keydown"
  /\ lastEvent.key = "Escape"
  /\ Len(Trim(searchQuery)) = 0
  /\ ~autocompleteOpen

\* C9: when activeIndex is a valid index i of the suggestion list, Enter sets
\* the query to the id of suggestions[i], closes the box, empties the list
\* and resets activeIndex to -1, as a select of that suggestion does.
C9_EnterCommitsActive ==
  [][(/\ lastEvent'.kind = "keydown"
      /\ lastEvent'.key = "Enter"
      /\ activeSuggestionIndex >= 0
      /\ activeSuggestionIndex <= Len(suggestions) - 1) =>
       /\ searchQuery' = suggestions[activeSuggestionIndex + 1].id
       /\ ~autocompleteOpen'
       /\ suggestions' = <<>>
       /\ activeSuggestionIndex' = -1]_vars

\* Enter committed a suggestion
C9_Witness ==
  /\ lastEvent.kind = "keydown"
  /\ lastEvent.key = "Enter"
  /\ Len(lastEvent.id) > 0
  /\ searchQuery = lastEvent.id
  /\ ~autocompleteOpen
  /\ suggestions = <<>>

\* C10: in every reachable state activeIndex is -1 or a valid index of the
\* suggestion list.
C10_ActiveIndexInRange ==
  /\ -1 <= activeSuggestionIndex
  /\ activeSuggestionIndex <= Len(suggestions) - 1

\* the questions of the second release arrived while the box listed
\* suggestions: the list is the short one and the first entry is active
C10_Witness ==
  /\ lastEvent.kind = "arrive"
  /\ searchIndex = IndexOfSecondRelease
  /\ autocompleteOpen
  /\ Len(suggestions) = 2
  /\ activeSuggestionIndex = 0

\* C18: when the question source fails the search index becomes empty and
\* the suggestions are recomputed against it; no record of an earlier
\* release stays in the index or in the list.
C18_FailureEmptiesIndex ==
  ~questionsAlive => (searchIndex = <<>> /\ suggestions = <<>>)

\* the request of the second release failed while the box was open on a
\* query long enough to list suggestions
C18_Witness ==
  /\ lastEvent.kind = "fail"
  /\ selectedReleaseIndex = 1
  /\ autocompleteOpen
  /\ Len(Query) >= 2
  /\ searchIndex = <<>>

\* C20: while the questions of the selected release have not arrived, the
\* suggestion list is empty.
C20_NoSuggestionsWhileLoading ==
  inflight # NoRequest => suggestions = <<>>

\* the questions of the list released on the selected date
OfRelease == SelectSeq(vmQuestions, LAMBDA q : q.release_date = vmReleaseId)

FirstFour(questions) ==
  SubSeq(questions, 1, IF Len(questions) < 4 THEN Len(questions) ELSE 4)

SampleIds(viewModel) ==
  [i \in 1..Len(viewModel.sampleQuestions) |-> viewModel.sampleQuestions[i].id]

IdsOf(questions) == [i \in 1..Len(questions) |-> questions[i].question_id]

\* C11: when some question of the list has the selected release_date, the
\* sample is the first 4 questions of that release_date, in list order.
C11_SampleOfSelectedRelease ==
  (viewModels # <<>> /\ OfRelease # <<>>) =>
    SampleIds(viewModels[1]) = IdsOf(FirstFour(OfRelease))

\* C12: when no question of a non-empty list has the selected release_date,
\* the sample is the first 4 questions of the whole list, and is not empty.
C12_SampleFallback ==
  (viewModels # <<>> /\ vmQuestions # <<>> /\ OfRelease = <<>>) =>
    /\ SampleIds(viewModels[1]) = IdsOf(FirstFour(vmQuestions))
    /\ viewModels[1].sampleQuestions # <<>>
    /\ \A i \in 1..Len(viewModels[1].sampleQuestions) :
         viewModels[1].sampleQuestions[i] = QuestionView(vmQuestions[i])

\* five questions of the other release: the sample is the first four
C12_Witness ==
  /\ viewModels # <<>>
  /\ Len(vmQuestions) = 5
  /\ OfRelease = <<>>
  /\ Len(viewModels[1].sampleQuestions) = 4

\* position of the category (or task) of that name among the report's
PositionOfName(items, name) == CHOOSE k \in 1..Len(items) : items[k].name = name

\* the items of the view are those of the report, by non-increasing score,
\* items of equal score in the order of the report
SortedViewOf(view, items) ==
  /\ Len(view) = Len(items)
  /\ \A k \in 1..Len(items) :
       \E i \in 1..Len(view) :
         view[i].name = items[k].name /\ view[i].score = items[k].score
  /\ \A i, j \in 1..Len(view) :
       i < j =>
         /\ view[i].score >= view[j].score
         /\ view[i].score = view[j].score =>
              PositionOfName(items, view[i].name) < PositionOfName(items, view[j].name)

\* C13: the categories of the view model are the categories of the report in
\* non-increasing score order, ties in key order; so are the tasks of each
\* category; overall is the report's overall.
C13_SortedCategoriesOverallPassThrough ==
  viewModels # <<>> =>
    /\ SortedViewOf(viewModels[1].categories, vmReport.categories)
    /\ \A i \in 1..Len(viewModels[1].categories) :
         LET view == viewModels[1].categories[i]
         IN SortedViewOf(view.tasks,
              vmReport.categories[PositionOfName(vmReport.categories, view.name)].tasks)
    /\ viewModels[1].overall = vmReport.overall

\* a report whose categories have to be reordered and hold a tie, with tasks
\* that have to be reordered and hold a tie
C13_Witness ==
  /\ viewModels # <<>>
  /\ Len(vmReport.categories) = 3
  /\ vmReport.categories[1].score < vmReport.categories[2].score
  /\ vmReport.categories[2].score = vmReport.categories[3].score
  /\ Len(vmReport.categories[1].tasks) = 3
  /\ viewModels[1].categories[1].name = vmReport.categories[2].name
  /\ viewModels[1].categories[3].name = vmReport.categories[1].name

\* the days of the window of a search that satisfy its predicate
MatchingDays(anchorDay, match) ==
  {d \in anchorDay..(anchorDay + 700) :
     hebrewPartsFormatter # 0 /\ Matches(match, HebrewCalendar[d])}

\* C14: findNextHebrewDate returns the earliest day of anchor..anchor+700
\* (both ends included) whose calendar fields satisfy the predicate, and
\* null when no day of the window does or when there is no formatter.
C14_FindNextEarliestInWindow ==
  lastCall.op = "find" =>
    LET days == MatchingDays(lastCall.day, lastCall.match)
    IN IF days = {}
         THEN lastCall.result = <<>>
         ELSE /\ lastCall.result # <<>>
              /\ lastCall.result[1].day \in days
              /\ \A d \in days : lastCall.result[1].day <= d

\* a search whose only match is the last day of the window
C14_Witness ==
  /\ lastCall.op = "find"
  /\ lastCall.match = "new_year_5788"
  /\ lastCall.day = 39
  /\ lastCall.result # <<>>
  /\ lastCall.result[1].day = 39 + 700

\* C15: the formatter is constructed at most once over any sequence of
\* lookups; after a construction that threw every lookup returns null and
\* none constructs again, and after one that succeeded the instance stays.
C15_FormatterBuiltOnce ==
  /\ [](/\ constructions <= 1
        /\ (constructions >= 1 /\ hebrewPartsFormatter = 0 /\ lastCall.op # "none")
             => lastCall.result = <<>>)
  /\ [][constructions >= 1 =>
          /\ constructions' = constructions
          /\ hebrewPartsFormatter' = hebrewPartsFormatter]_vars

\* three lookups after a construction that threw: the last one, for a day
\* that is the first of its month, still returns null
C15_Witness ==
  /\ constructions = 1
  /\ hebrewPartsFormatter = 0
  /\ calendarCalls = 3
  /\ lastCall.op = "find"
  /\ lastCall.match = "rosh_chodesh"
  /\ lastCall.day = 0
  /\ lastCall.result = <<>>

\* C16: the report is requested once, and selecting a different release
\* issues exactly one request of questions and none of the report.
C16_OneFetchPerReleaseChange ==
  [][/\ fetchesStarted'.report = 1 => reportState = "idle"
     /\ (lastEvent'.kind = "release" /\ selectedReleaseIndex' # selectedReleaseIndex)
          => fetchesStarted' = [questions |-> 1, report |-> 0]]_vars

\* the last step is a failure of the report, of a request of questions, or
\* a response with a line that JSON.parse rejects
LoadFailed ==
  \/ lastEvent.kind \in {"reportFail", "requestFail"}
  \/ lastEvent.kind = "response" /\ Includes(lastEvent.id, <<"{">>)

\* C17: when the report, a request of questions or the parse of a line
\* fails, every live subscription to vm$ receives null and ends without an
\* error; a response with one malformed line gives null, not a view model.
C17_FailureYieldsNull ==
  /\ [](\A s \in 1..MaxSubscribers :
          /\ ~subscribers[s].error
          /\ subscribers[s].status = "done" => subscribers[s].last = NullEmission)
  /\ [][LoadFailed' =>
          \A s \in 1..MaxSubscribers :
            subscribers[s].status = "live" =>
              /\ subscribers'[s].status = "done"
              /\ subscribers'[s].last = NullEmission
              /\ ~subscribers'[s].error]_vars

\* the report is loaded and the only subscription has ended with null on a
\* response whose second line is malformed
C17_Witness ==
  /\ lastEvent.kind = "response"
  /\ lastEvent.id = <<"1","\n","{","\n","3">>
  /\ reportState = "loaded"
  /\ subscribers[1].status = "done"
  /\ subscribers[1].last = NullEmission
  /\ subscribers[2].status = "none"

\* 'A.'..'D.' followed by white space
LetterDotSpace(line) ==
  /\ Len(line) >= 3
  /\ line[1] \in {"A", "B", "C", "D"}
  /\ line[2] = "."
  /\ line[3] \in WhiteSpace

\* the same, and a carriage return of the line lies in the white space
\* that follows the dot
OptionLine(line) ==
  /\ LetterDotSpace(line)
  /\ \A i \in 3..Len(line) :
       line[i] = "\r" => \A j \in 3..i : line[j] \in WhiteSpace

InstructionLine(line) ==
  \/ StartsWith(ToLowerCase(line), <<"a","n","s","w","e","r">>)
  \/ StartsWith(ToLowerCase(line), <<"r","e","t","u","r","n">>)

\* the lines after the title
LaterLines ==
  LET lines == PromptLines(previewPrompt)
  IN IF lines = <<>> THEN <<>> ELSE Tail(lines)

\* the preview is the title, the option lines in order, the last
\* instruction line and the first four detail lines, for the given reading
\* of what an option line is
PreviewClassifies(IsOption(_)) ==
  previews # <<>> =>
    LET preview      == previews[1]
        lines        == PromptLines(previewPrompt)
        IsInstruction(line) == ~IsOption(line) /\ InstructionLine(line)
        IsDetail(line)      == ~IsOption(line) /\ ~InstructionLine(line)
        options      == SelectSeq(LaterLines, IsOption)
        instructions == SelectSeq(LaterLines, IsInstruction)
        details      == SelectSeq(LaterLines, IsDetail)
    IN /\ preview.title = IF lines = <<>> THEN UntitledQuestion ELSE lines[1]
       /\ Len(preview.options) = Len(options)
       /\ \A i \in 1..Len(options) :
            /\ preview.options[i].letter = options[i][1]
            /\ preview.options[i].text = Trim(SubSeq(options[i], 3, Len(options[i])))
       /\ preview.instruction = IF instructions = <<>> THEN <<>>
                                ELSE instructions[Len(instructions)]
       /\ preview.details = SubSeq(details, 1, IF Len(details) < 4 THEN Len(details) ELSE 4)

\* C19 as stated: every line after the title that starts with 'A.'..'D.'
\* and white space is an option, a line starting with answer or return is
\* the instruction (the last one wins), the others are details, of which
\* the first 4 are kept.
C19_LinesClassified == PreviewClassifies(LetterDotSpace)

\* C19 amended: the same, where an option line is a line 'A.'..'D.'
\* followed by white space whose remaining text holds no carriage return;
\* a line with one is an instruction or a detail.
C19_LinesClassifiedNoReturn == PreviewClassifies(OptionLine)

\* a prompt with an option, two different instruction lines and more than
\* four detail lines
C19_Witness ==
  /\ previews # <<>>
  /\ Len(previews[1].options) >= 1
  /\ Len(SelectSeq(LaterLines, InstructionLine)) >= 2
  /\ previews[1].instruction = <<"R","E","T","U","R","N"," ","b">>
  /\ Len(SelectSeq(LaterLines, LAMBDA line : ~LetterDotSpace(line) /\ ~InstructionLine(line))) > 4
  /\ Len(previews[1].details) = 4

\* C21: every view model a subscriber of vm$ receives pairs its releaseId
\* with questions that were fetched for that releaseId; none is built from
\* the new releaseId and the questions of the release selected before.
C21_ViewModelPairsRelease ==
  \A s \in 1..MaxSubscribers :
    (subscribers[s].last # NoEmission /\ ~subscribers[s].last[1].null) =>
      LET vm == subscribers[s].last[1].vm
      IN vm.releaseDate = vm.releaseId

\* the questions of a list were all fetched for the given release
FetchedFor(questions, index) ==
  \A i \in 1..Len(questions) : questions[i].release_date = ReleaseDates[index + 1]

====
